---- MODULE Spec2Model ----
(***************************************************************************)
(* A model of the clReflect runtime reflection database:                   *)
(*   - the hash-indexed binary search of Database.cpp,                     *)
(*   - the Database facade (Load, GetName, GetType, GetNamespace,          *)
(*     GetFunction, IsLoaded, destructor),                                 *)
(*   - the kind-checked casts of Database.h,                               *)
(*   - the array helpers of clReflectExport (CArray, shallow_copy,         *)
(*     unstable_remove, deep_copy),                                        *)
(*   - the byte cursor clutl::DataBuffer.                                  *)
(* Each part has its own specification over its own variables; the other   *)
(* variables stay at their initial value.                                  *)
(***************************************************************************)
EXTENDS Integers, Sequences, FiniteSets, TLC

VARIABLES
    \* ---- binary search (Database.cpp, BinarySearch) ----
    entries,        \* the array searched: a sequence of name hashes
    compare_value,  \* the hash looked for
    first,          \* int first
    last,           \* int last
    search_pc,      \* "loop" while the while-loop runs, "done" after return
    returned,       \* <<>> before the return, then <<index or -1>>
    \* ---- Database facade (Database.cpp) ----
    m_DatabaseMem,  \* per facade: the block pointer, 0 is null
    facade,         \* per facade: "alive" or "destroyed"
    heap,           \* per block: allocation state, contents, times freed
    loads,          \* per facade: the results of its Load calls, in order
    call,           \* the most recent call on a facade and what it did
    remembered,     \* one earlier query and its result, for comparison
    \* ---- kind-checked casts (Database.h) ----
    node,           \* the node a cast is applied to
    cast,           \* the most recent cast and its outcome
    \* ---- array helpers (clReflectExport) ----
    arrays,         \* per array object: size, data, allocator, state
    storage,        \* per storage: contents, allocation state, times freed
    op,             \* the most recent array operation and what it did
    \* ---- clutl::DataBuffer ----
    buffer,         \* m_Data (the bytes), m_Size and m_Position
    io              \* the most recent buffer operation and what it did

searchVars == <<entries, compare_value, first, last, search_pc, returned>>
dbVars     == <<m_DatabaseMem, facade, heap, loads, call, remembered>>
castVars   == <<node, cast>>
arrayVars  == <<arrays, storage, op>>
bufferVars == <<buffer, io>>
vars       == <<searchVars, dbVars, castVars, arrayVars, bufferVars>>

(***************************************************************************)
(* 32-bit unsigned integers.  A value v is held as <<v \div 2^16,          *)
(* v % 2^16>> so that the full range 0..2^32-1 is covered exactly.         *)
(***************************************************************************)
HalfWord == 65536

U32(hi, lo) == <<hi, lo>>

\* a - b in unsigned int arithmetic (modulo 2^32)
Sub32(a, b) ==
    LET lo     == a[2] - b[2]
        borrow == IF lo < 0 THEN 1 ELSE 0
        hi     == a[1] - b[1] - borrow
    IN  <<(hi + HalfWord) % HalfWord, (lo + HalfWord) % HalfWord>>

\* the conversion of an unsigned int to int (two's complement)
ToInt(u) ==
    IF u[1] >= HalfWord \div 2
    THEN (u[1] - HalfWord) * HalfWord + u[2]
    ELSE u[1] * HalfWord + u[2]

\* a < b as unsigned values
Less32(a, b) == a[1] < b[1] \/ (a[1] = b[1] /\ a[2] < b[2])

LessEq32(a, b) == a = b \/ Less32(a, b)

\* the hashes the model draws from: the spec's scenario values, the ends of
\* the range and values 2^31 or more apart
Hashes ==
    { U32(0, 10), U32(0, 20), U32(0, 25), U32(0, 30), U32(0, 40),
      U32(32768, 0), U32(32768, 11), U32(65535, 65535) }

ZeroHash == U32(0, 0)

\* longest array of the search specification
MaxLen == 4

IsSorted(s) == \A i \in 1..(Len(s) - 1) : LessEq32(s[i], s[i + 1])

SortedArrays(H, n) ==
    UNION { {s \in [1..k -> H] : IsSorted(s)} : k \in 0..n }

\* the hashes of the arrays that need not be sorted
FewHashes == { U32(0, 10), U32(0, 30), U32(32768, 11), U32(65535, 65535) }

\* every array of at most n entries, sorted or not, with or without
\* duplicates
AllArrays(H, n) == UNION { [1..k -> H] : k \in 0..n }

(***************************************************************************)
(* Database.cpp: the comparison functions and BinarySearch.                *)
(***************************************************************************)
\* int CompareNames(Name name, unsigned int hash) { return hash - name.hash; }
CompareNames(name_hash, hash) == ToInt(Sub32(hash, name_hash))

ComparePrimitives_Bool(primitive_name_hash, hash) ==
    IF Less32(primitive_name_hash, hash) THEN 1 ELSE 0

\* int ComparePrimitives(const Primitive*, unsigned int hash)
ComparePrimitives(primitive_name_hash, hash) ==
    ToInt(Sub32(hash, primitive_name_hash))

InitialLast_OffByOne(size) == ToInt(U32(0, size))

\* int last = entries.size() - 1;  (unsigned subtraction, converted to int)
InitialLast(size) == ToInt(Sub32(U32(0, size), U32(0, 1)))

\* int mid = (first + last) / 2;
MidPoint(f, l) == (f + l) \div 2

\* entries[mid], the array being indexed from 0
EntryAt(arr, mid) == arr[mid + 1]

\* return -1;
NotFound == -1

\* the template parameter COMPARE_FUNC: "names" is CompareNames,
\* "primitives" is ComparePrimitives
COMPARE_FUNC(which, entry, hash) ==
    IF which = "names" THEN CompareNames(entry, hash)
    ELSE ComparePrimitives(entry, hash)

\* the while loop of BinarySearch from the interval first..last
RECURSIVE BinarySearchLoop(_, _, _, _, _)
BinarySearchLoop(which, arr, hash, f, l) ==
    IF ~(f <= l) THEN NotFound
    ELSE LET mid == MidPoint(f, l)
             cmp == COMPARE_FUNC(which, EntryAt(arr, mid), hash)
         IN  IF cmp > 0 THEN BinarySearchLoop(which, arr, hash, mid + 1, l)
             ELSE IF cmp < 0 THEN BinarySearchLoop(which, arr, hash, f, mid - 1)
             ELSE mid

\* int BinarySearch(const CArray<ARRAY_TYPE>& entries, COMPARE_R_TYPE compare_value)
BinarySearch(which, arr, hash) ==
    BinarySearchLoop(which, arr, hash, 0, InitialLast(Len(arr)))

(***************************************************************************)
(* The search specification: one run of BinarySearch over a sorted array,  *)
(* one loop iteration per step.                                           *)
(***************************************************************************)
SearchTargets == Hashes \cup {ZeroHash}

\* cmp of the current iteration
CurrentCmp ==
    ComparePrimitives(EntryAt(entries, MidPoint(first, last)), compare_value)

\* if (cmp > 0) first = mid + 1;
ShiftUpper ==
    /\ search_pc = "loop"
    /\ first <= last
    /\ CurrentCmp > 0
    /\ first' = MidPoint(first, last) + 1
    /\ UNCHANGED <<entries, compare_value, last, search_pc, returned>>

\* else if (cmp < 0) last = mid - 1;
ShiftLower ==
    /\ search_pc = "loop"
    /\ first <= last
    /\ CurrentCmp < 0
    /\ last' = MidPoint(first, last) - 1
    /\ UNCHANGED <<entries, compare_value, first, search_pc, returned>>

\* else return mid;
ExactMatch ==
    /\ search_pc = "loop"
    /\ first <= last
    /\ CurrentCmp = 0
    /\ returned' = <<MidPoint(first, last)>>
    /\ search_pc' = "done"
    /\ UNCHANGED <<entries, compare_value, first, last>>

\* the loop condition fails: return -1;
LoopExit ==
    /\ search_pc = "loop"
    /\ ~(first <= last)
    /\ returned' = <<NotFound>>
    /\ search_pc' = "done"
    /\ UNCHANGED <<entries, compare_value, first, last>>

\* the other parts of the model stay as they are
SearchFrame == UNCHANGED <<dbVars, castVars, arrayVars, bufferVars>>

SearchNext ==
    \/ ShiftUpper /\ SearchFrame
    \/ ShiftLower /\ SearchFrame
    \/ ExactMatch /\ SearchFrame
    \/ LoopExit /\ SearchFrame

(***************************************************************************)
(* The Database facade.  A DatabaseMem block is modelled by the four       *)
(* arrays the facade searches; an entry is modelled by its name hash, and  *)
(* a pointer to an entry by the entry's index and hash.                    *)
(***************************************************************************)
Null == 0

\* the value of *m_DatabaseMem when m_DatabaseMem is null: there is none
NullMem == [null |-> TRUE]

\* const Primitive* 0
NullPrimitive == [null |-> TRUE]

PrimitiveAt(arr, index) ==
    [null |-> FALSE, index |-> index, hash |-> EntryAt(arr, index)]

\* Name() : hash(0), text(0)
EmptyName == [hash |-> ZeroHash, text |-> Null]

\* names[index]: its text points into the name data of the block
NameAt(arr, index) == [hash |-> EntryAt(arr, index), text |-> index + 1]

\* what a call did: it returned a value, or it read through a null
\* m_DatabaseMem, which is undefined behaviour
Returned(value, touched) ==
    [outcome |-> "returned", value |-> value, touched |-> touched]

\* the outcomes of reading through the null block pointer: the read faults,
\* or it yields whatever lies at the address and the call returns that
NullDereference ==
    { [outcome |-> "access violation", value |-> NullPrimitive, touched |-> TRUE],
      [outcome |-> "returned garbage", value |-> NullPrimitive, touched |-> TRUE] }

\* const Primitive* internal::FindPrimitive(primitives, hash)
FindPrimitive(primitives, hash) ==
    LET index == BinarySearch("primitives", primitives, hash)
    IN  IF index = NotFound THEN NullPrimitive
        ELSE PrimitiveAt(primitives, index)

GetName_NoEmptyCheck(mem, text, hash) ==
    IF text = "null" THEN {Returned(EmptyName, FALSE)}
    ELSE IF mem = NullMem THEN NullDereference
    ELSE LET index == BinarySearch("names", mem.names, hash)
         IN  IF index = NotFound THEN {Returned(EmptyName, TRUE)}
             ELSE {Returned(NameAt(mem.names, index), TRUE)}

\* Name Database::GetName(const char* text); text is "null" or "set", and
\* hash is what HashNameString(text) returns
GetName(mem, text, hash) ==
    IF text = "null" THEN {Returned(EmptyName, FALSE)}
    ELSE IF hash = ZeroHash THEN {Returned(EmptyName, FALSE)}
    ELSE IF mem = NullMem THEN NullDereference
    ELSE LET index == BinarySearch("names", mem.names, hash)
         IN  IF index = NotFound THEN {Returned(EmptyName, TRUE)}
             ELSE {Returned(NameAt(mem.names, index), TRUE)}

\* const Type* Database::GetType(unsigned int hash)
GetType(mem, hash) ==
    IF mem = NullMem THEN NullDereference
    ELSE {Returned(FindPrimitive(mem.type_primitives, hash), TRUE)}

\* const Namespace* Database::GetNamespace(unsigned int hash)
GetNamespace(mem, hash) ==
    IF mem = NullMem THEN NullDereference
    ELSE LET index == BinarySearch("primitives", mem.namespaces, hash)
         IN  IF index = NotFound THEN {Returned(NullPrimitive, TRUE)}
             ELSE {Returned(PrimitiveAt(mem.namespaces, index), TRUE)}

\* const Function* Database::GetFunction(unsigned int hash)
GetFunction(mem, hash) ==
    IF mem = NullMem THEN NullDereference
    ELSE LET index == BinarySearch("primitives", mem.functions, hash)
         IN  IF index = NotFound THEN {Returned(NullPrimitive, TRUE)}
             ELSE {Returned(PrimitiveAt(mem.functions, index), TRUE)}

\* bool IsLoaded() const { return m_DatabaseMem != 0; }
IsLoaded(ptr) == ptr # Null

(***************************************************************************)
(* The facade specification: facades are constructed, loaded (any number   *)
(* of times up to MaxLoads), queried and destroyed.                        *)
(***************************************************************************)
\* the facades of the facade specification
Facades == {"db1", "db2"}

\* Load calls in one run, over all facades
MaxLoads == 2

Blocks == 1..MaxLoads

\* the Load calls made so far
LoadCalls == Len(loads["db1"]) + Len(loads["db2"])

EmptyImage ==
    [names |-> <<>>, type_primitives |-> <<>>, namespaces |-> <<>>,
     functions |-> <<>>]

SmallImage ==
    [names |-> <<U32(0, 10), U32(0, 20), U32(0, 30)>>,
     type_primitives |-> <<U32(0, 10), U32(0, 30)>>,
     namespaces |-> <<U32(0, 10)>>,
     functions |-> <<U32(0, 5), U32(0, 10), U32(0, 10), U32(0, 30)>>]

\* the databases a file can hold
Images == {EmptyImage, SmallImage}

\* what IFile* file holds: a database, or a stream the loader rejects
Files == Images \cup {[bad |-> TRUE]}

QueryHashes == {U32(0, 10), U32(0, 25)}

Queries == {"GetName", "GetType", "GetNamespace", "GetFunction"}

NoCall == [op |-> "none", f |-> "none"]

UnusedBlock == [state |-> "unused", mem |-> NullMem, frees |-> 0]

\* *m_DatabaseMem
Deref(ptr) == IF ptr = Null THEN NullMem ELSE heap[ptr].mem

\* the block a successful loader run allocates
FreshBlock ==
    CHOOSE b \in Blocks :
        /\ heap[b].state = "unused"
        /\ \A c \in Blocks : c < b => heap[c].state # "unused"

\* Database::Database() : m_DatabaseMem(0)
Database_ctor == Null

LoadAssign_KeepOnFailure(old, block) == IF block = Null THEN old ELSE block

\* m_DatabaseMem = internal::LoadMemoryMappedDatabase(file);
LoadAssign(old, block) == block

\* return m_DatabaseMem != 0;
LoadReturn(ptr) == ptr # Null

\* a query result is forgotten when its facade is loaded again or destroyed
Forget(f) == IF remembered.f = f THEN NoCall ELSE remembered

\* bool Database::Load(IFile* file); the loader is the environment: it
\* returns null, or a block it has just allocated and filled from the file
Load(f, file) ==
    /\ facade[f] = "alive"
    /\ LoadCalls < MaxLoads
    /\ LET block == IF file \in Images THEN FreshBlock ELSE Null
           ptr   == LoadAssign(m_DatabaseMem[f], block)
       IN  /\ heap' = IF block = Null THEN heap
                      ELSE [heap EXCEPT ![block] =
                               [state |-> "allocated", mem |-> file, frees |-> 0]]
           /\ m_DatabaseMem' = [m_DatabaseMem EXCEPT ![f] = ptr]
           /\ loads' = [loads EXCEPT ![f] = Append(@, block)]
           /\ call' = [op |-> "Load", f |-> f,
                       loaded |-> IsLoaded(m_DatabaseMem[f]),
                       arg |-> <<"file", ZeroHash>>,
                       outcome |-> "returned", value |-> LoadReturn(ptr),
                       touched |-> FALSE]
    /\ remembered' = Forget(f)
    /\ UNCHANGED facade

DeleteBlock_Leak(h, ptr) == h

\* delete (char*)m_DatabaseMem;  deleting a null pointer does nothing
DeleteBlock(h, ptr) ==
    IF ptr = Null THEN h
    ELSE [h EXCEPT ![ptr].state = "freed", ![ptr].frees = @ + 1]

\* Database::~Database()
Destroy(f) ==
    /\ facade[f] = "alive"
    /\ facade' = [facade EXCEPT ![f] = "destroyed"]
    /\ heap' = DeleteBlock(heap, m_DatabaseMem[f])
    /\ call' = [op |-> "~Database", f |-> f,
                loaded |-> IsLoaded(m_DatabaseMem[f]),
                arg |-> <<"none", ZeroHash>>,
                outcome |-> "returned", value |-> m_DatabaseMem[f],
                touched |-> FALSE]
    /\ remembered' = Forget(f)
    /\ UNCHANGED <<m_DatabaseMem, loads>>

\* the record of a query; the first query on a loaded facade is remembered
QueryDone(name, f, text, hash, r) ==
    LET c == [op |-> name, f |-> f, loaded |-> IsLoaded(m_DatabaseMem[f]),
              arg |-> <<text, hash>>, outcome |-> r.outcome,
              value |-> r.value, touched |-> r.touched]
    IN  /\ call' = c
        /\ remembered' =
               IF remembered = NoCall /\ IsLoaded(m_DatabaseMem[f])
               THEN [op |-> name, f |-> f, arg |-> <<text, hash>>,
                     outcome |-> r.outcome, value |-> r.value,
                     repeated |-> FALSE]
               ELSE IF /\ remembered.op = name
                       /\ remembered.f = f
                       /\ remembered.arg = <<text, hash>>
               THEN [remembered EXCEPT !.repeated = TRUE]
               ELSE remembered

GetName_call(f, text, hash) ==
    /\ facade[f] = "alive"
    /\ \E r \in GetName(Deref(m_DatabaseMem[f]), text, hash) :
           QueryDone("GetName", f, text, hash, r)
    /\ UNCHANGED <<m_DatabaseMem, facade, heap, loads>>

\* a lookup that swaps the entry it found with the last one
SwapFoundWithLast(arr, hash) ==
    LET index == BinarySearch("primitives", arr, hash)
    IN  IF index = NotFound THEN arr
        ELSE [arr EXCEPT ![index + 1] = arr[Len(arr)],
                         ![Len(arr)] = arr[index + 1]]

GetType_call_Reordering(f, hash) ==
    /\ facade[f] = "alive"
    /\ \E r \in GetType(Deref(m_DatabaseMem[f]), hash) :
           QueryDone("GetType", f, "hash", hash, r)
    /\ heap' = IF m_DatabaseMem[f] = Null THEN heap
               ELSE [heap EXCEPT ![m_DatabaseMem[f]].mem.type_primitives =
                                    SwapFoundWithLast(@, hash)]
    /\ UNCHANGED <<m_DatabaseMem, facade, loads>>

GetType_call(f, hash) ==
    /\ facade[f] = "alive"
    /\ \E r \in GetType(Deref(m_DatabaseMem[f]), hash) :
           QueryDone("GetType", f, "hash", hash, r)
    /\ UNCHANGED <<m_DatabaseMem, facade, heap, loads>>

GetNamespace_call(f, hash) ==
    /\ facade[f] = "alive"
    /\ \E r \in GetNamespace(Deref(m_DatabaseMem[f]), hash) :
           QueryDone("GetNamespace", f, "hash", hash, r)
    /\ UNCHANGED <<m_DatabaseMem, facade, heap, loads>>

GetFunction_call(f, hash) ==
    /\ facade[f] = "alive"
    /\ \E r \in GetFunction(Deref(m_DatabaseMem[f]), hash) :
           QueryDone("GetFunction", f, "hash", hash, r)
    /\ UNCHANGED <<m_DatabaseMem, facade, heap, loads>>

\* the arguments of GetName(text): a null text, or a text and its hash
NameArgs ==
    {<<"null", ZeroHash>>} \cup
    {<<"set", h>> : h \in QueryHashes \cup {ZeroHash}}

DbFrame == UNCHANGED <<searchVars, castVars, arrayVars, bufferVars>>

DbNext ==
    \/ \E f \in Facades, file \in Files : Load(f, file) /\ DbFrame
    \/ \E f \in Facades : Destroy(f) /\ DbFrame
    \/ \E f \in Facades, a \in NameArgs :
           GetName_call(f, a[1], a[2]) /\ DbFrame
    \/ \E f \in Facades, h \in QueryHashes : GetType_call(f, h) /\ DbFrame
    \/ \E f \in Facades, h \in QueryHashes :
           GetNamespace_call(f, h) /\ DbFrame
    \/ \E f \in Facades, h \in QueryHashes :
           GetFunction_call(f, h) /\ DbFrame

(***************************************************************************)
(* The kind-checked casts of clcpp/Database.h and crcpp/Database.h.        *)
(***************************************************************************)
\* enum Primitive::Kind of clcpp
clcpp_Kinds ==
    { "KIND_NONE", "KIND_ATTRIBUTE", "KIND_FLAG_ATTRIBUTE",
      "KIND_INT_ATTRIBUTE", "KIND_FLOAT_ATTRIBUTE", "KIND_NAME_ATTRIBUTE",
      "KIND_TEXT_ATTRIBUTE", "KIND_TYPE", "KIND_ENUM_CONSTANT", "KIND_ENUM",
      "KIND_FIELD", "KIND_FUNCTION", "KIND_TEMPLATE_TYPE", "KIND_TEMPLATE",
      "KIND_CLASS", "KIND_NAMESPACE" }

\* enum Primitive::Kind of crcpp
crcpp_Kinds ==
    { "KIND_NONE", "KIND_TYPE", "KIND_ENUM_CONSTANT", "KIND_ENUM",
      "KIND_FIELD", "KIND_FUNCTION", "KIND_CLASS", "KIND_NAMESPACE" }

\* static const Kind KIND of each struct
Enum_KIND == "KIND_ENUM"

TemplateType_KIND == "KIND_TEMPLATE_TYPE"

Class_KIND == "KIND_CLASS"

\* internal::Assert(expression) of Core.h: a false expression stops the
\* caller, which then returns nothing
internal_Assert(expression) ==
    IF expression THEN "passed" ELSE "assertion failure"

\* the statements after an Assert run only when it passed
AssertThenReturn(expression, value) ==
    IF internal_Assert(expression) = "passed"
    THEN [outcome |-> "returned", value |-> value]
    ELSE [outcome |-> "assertion failure"]

\* clcpp: inline const Enum* Type::AsEnum() const
Type_AsEnum(this) == AssertThenReturn(this.kind = Enum_KIND, this)

\* clcpp: inline const TemplateType* Type::AsTemplateType() const
Type_AsTemplateType(this) ==
    AssertThenReturn(this.kind = TemplateType_KIND, this)

Type_AsClass_Unchecked(this) == [outcome |-> "returned", value |-> this]

\* clcpp: inline const Class* Type::AsClass() const
Type_AsClass(this) == AssertThenReturn(this.kind = Class_KIND, this)

\* clcpp: inline const IntAttribute* Attribute::AsIntAttribute() const
Attribute_AsIntAttribute(this) ==
    AssertThenReturn(this.kind = "KIND_INT_ATTRIBUTE", this)

\* clcpp: inline const FloatAttribute* Attribute::AsFloatAttribute() const
Attribute_AsFloatAttribute(this) ==
    AssertThenReturn(this.kind = "KIND_FLOAT_ATTRIBUTE", this)

\* clcpp: inline const NameAttribute* Attribute::AsNameAttribute() const
Attribute_AsNameAttribute(this) ==
    AssertThenReturn(this.kind = "KIND_NAME_ATTRIBUTE", this)

\* clcpp: inline const TextAttribute* Attribute::AsTextAttribute() const
Attribute_AsTextAttribute(this) ==
    AssertThenReturn(this.kind = "KIND_TEXT_ATTRIBUTE", this)

\* crcpp: inline const Enum* Type::AsEnum() const
crcpp_Type_AsEnum(this) == AssertThenReturn(this.kind = Enum_KIND, this)

\* crcpp: inline const Class* Type::AsClass() const
crcpp_Type_AsClass(this) == AssertThenReturn(this.kind = Class_KIND, this)

\* the nodes: a Type or an Attribute of either library; Type(Kind k) and
\* Attribute(Kind k) accept every kind tag
Nodes ==
    [ns : {"clcpp"}, base : {"Type", "Attribute"}, kind : clcpp_Kinds] \cup
    [ns : {"crcpp"}, base : {"Type"}, kind : crcpp_Kinds]

\* the casts a node's static type declares
CastsOf(n) ==
    IF n.base = "Attribute"
    THEN {"AsIntAttribute", "AsFloatAttribute", "AsNameAttribute",
          "AsTextAttribute"}
    ELSE IF n.ns = "clcpp" THEN {"AsEnum", "AsTemplateType", "AsClass"}
    ELSE {"AsEnum", "AsClass"}

ApplyCast(c, n) ==
    CASE c = "AsEnum" /\ n.ns = "clcpp" -> Type_AsEnum(n)
      [] c = "AsEnum" /\ n.ns = "crcpp" -> crcpp_Type_AsEnum(n)
      [] c = "AsClass" /\ n.ns = "clcpp" -> Type_AsClass(n)
      [] c = "AsClass" /\ n.ns = "crcpp" -> crcpp_Type_AsClass(n)
      [] c = "AsTemplateType" -> Type_AsTemplateType(n)
      [] c = "AsIntAttribute" -> Attribute_AsIntAttribute(n)
      [] c = "AsFloatAttribute" -> Attribute_AsFloatAttribute(n)
      [] c = "AsNameAttribute" -> Attribute_AsNameAttribute(n)
      [] c = "AsTextAttribute" -> Attribute_AsTextAttribute(n)

NoCast == [name |-> "none"]

Cast(c) ==
    /\ c \in CastsOf(node)
    /\ cast' = [name |-> c, result |-> ApplyCast(c, node)]
    /\ UNCHANGED node

CastFrame == UNCHANGED <<searchVars, dbVars, arrayVars, bufferVars>>

CastNext ==
    \E c \in {"AsEnum", "AsTemplateType", "AsClass", "AsIntAttribute",
               "AsFloatAttribute", "AsNameAttribute", "AsTextAttribute"} :
        Cast(c) /\ CastFrame

(***************************************************************************)
(* The array helpers of clReflectExport: the RAII CArray, shallow_copy and *)
(* unstable_remove.  A storage is one allocation (or one caller-supplied   *)
(* buffer); data is a storage id, 0 for the null pointer.                  *)
(***************************************************************************)
\* the array objects of the array specification
ArrayIds == {"a", "b"}

\* largest element count of an array
MaxSize == 3

\* allocations and caller-supplied buffers
MaxStorages == 3

StorageIds == 1..MaxStorages

\* the value of a default-constructed element
DefaultValue == 0

\* the values an element can hold: the default and MaxSize distinct others
ElemValues == DefaultValue..MaxSize

\* IAllocator* 0
NullAllocator == "null"

TheAllocator == "allocator"

NoArray == [state |-> "unconstructed", size |-> 0, data |-> Null,
            allocator |-> NullAllocator]

\* an array object whose lifetime has ended: it has no fields any more
DestroyedArray == [state |-> "destroyed", size |-> 0, data |-> Null,
                   allocator |-> NullAllocator]

UnusedStorage == [state |-> "unused", elems |-> <<>>, frees |-> 0]

\* sizeof(TYPE), in bytes
SizeOfType == 4

\* the calls an operation makes on the allocator and on the elements:
\* the sizes passed to Alloc, the indices passed to CallConstructor and to
\* CallDestructor, and the pointers passed to Free, each in call order
NoCalls == [allocs |-> <<>>, constructed |-> <<>>, destructed |-> <<>>,
            frees |-> <<>>]

NoOp ==
    [name |-> "none", a |-> "none", b |-> "none", index |-> 0,
     outcome |-> "none", calls |-> NoCalls, was |-> NoArray,
     before |-> <<>>]

HasFreeStorage == \E s \in StorageIds : storage[s].state = "unused"

FreshStorage ==
    CHOOSE s \in StorageIds :
        /\ storage[s].state = "unused"
        /\ \A t \in StorageIds : t < s => storage[t].state # "unused"

\* the elements an array views: data[0] .. data[size - 1]
ViewOf(arr, st) ==
    IF arr.data = Null THEN <<>> ELSE SubSeq(st[arr.data].elems, 1, arr.size)

View(a) == ViewOf(arrays[a], storage)

\* the array's data can be read and written: it is not a freed allocation
Usable(arr) ==
    arr.size = 0 \/ (arr.data # Null /\ storage[arr.data].state # "freed")

\* the record of an operation; was holds the array fields and before the
\* elements that the operation found
Done(name, a, b, index, outcome, calls, was, before) ==
    op' = [name |-> name, a |-> a, b |-> b, index |-> index,
           outcome |-> outcome, calls |-> calls, was |-> was,
           before |-> before]

\* for (unsigned int i = 0; i < size; i++): the values of i
EachIndex(size) == [i \in 1..size |-> i - 1]

\* CArray(): size = 0; data = 0; allocator = 0;
CArray_empty(a) ==
    /\ arrays[a].state = "unconstructed"
    /\ arrays' = [arrays EXCEPT ![a] =
                     [state |-> "alive", size |-> 0, data |-> Null,
                      allocator |-> NullAllocator]]
    /\ Done("CArray()", a, "none", 0, "returned", NoCalls, NoArray, <<>>)
    /\ UNCHANGED storage

\* data = (TYPE*)allocator->Alloc(size * sizeof(TYPE));
\* for (i < size) CallConstructor(data + i);
CArray_alloc_calls(size) ==
    [NoCalls EXCEPT !.allocs = <<size * SizeOfType>>,
                    !.constructed = EachIndex(size)]

\* CArray(unsigned int _size, IAllocator* _allocator): one Alloc, then the
\* constructor of each element
CArray_alloc(a, size) ==
    /\ arrays[a].state = "unconstructed"
    /\ HasFreeStorage
    /\ arrays' = [arrays EXCEPT ![a] =
                     [state |-> "alive", size |-> size, data |-> FreshStorage,
                      allocator |-> TheAllocator]]
    /\ storage' = [storage EXCEPT ![FreshStorage] =
                      [state |-> "allocated",
                       elems |-> [i \in 1..size |-> DefaultValue],
                       frees |-> 0]]
    /\ Done("CArray(size, allocator)", a, "none", 0, "returned",
            CArray_alloc_calls(size), NoArray, <<>>)

\* CArray(TYPE* _data, unsigned int _size): the caller's buffer
CArray_data(a, elems) ==
    /\ arrays[a].state = "unconstructed"
    /\ HasFreeStorage
    /\ arrays' = [arrays EXCEPT ![a] =
                     [state |-> "alive", size |-> Len(elems),
                      data |-> FreshStorage, allocator |-> NullAllocator]]
    /\ storage' = [storage EXCEPT ![FreshStorage] =
                      [state |-> "external", elems |-> elems, frees |-> 0]]
    /\ Done("CArray(data, size)", a, "none", 0, "returned", NoCalls, NoArray, <<>>)

\* allocator->Free(data); what freed memory holds is no longer modelled
Free(st, data) ==
    [st EXCEPT ![data].state = "freed", ![data].frees = @ + 1,
               ![data].elems = <<>>]

\* the storage after the Free calls of an operation
RECURSIVE FreeAll(_, _)
FreeAll(st, ptrs) ==
    IF ptrs = <<>> THEN st ELSE FreeAll(Free(st, Head(ptrs)), Tail(ptrs))

CArray_dtor_calls_SkipsLast(arr) ==
    IF arr.allocator # NullAllocator
    THEN [NoCalls EXCEPT !.destructed = EachIndex(arr.size - 1),
                         !.frees = <<arr.data>>]
    ELSE NoCalls

\* if (allocator) { for (i < size) CallDestructor(data + i);
\*                  allocator->Free(data); }
CArray_dtor_calls(arr) ==
    IF arr.allocator # NullAllocator
    THEN [NoCalls EXCEPT !.destructed = EachIndex(arr.size),
                         !.frees = <<arr.data>>]
    ELSE NoCalls

\* ~CArray()
CArray_dtor(a) ==
    /\ arrays[a].state = "alive"
    /\ arrays' = [arrays EXCEPT ![a] = DestroyedArray]
    /\ storage' = FreeAll(storage, CArray_dtor_calls(arrays[a]).frees)
    /\ Done("~CArray", a, "none", 0, "returned",
            CArray_dtor_calls(arrays[a]), arrays[a], <<>>)

\* shallow_copy(dest, src)
shallow_copy(dest, src) ==
    [dest EXCEPT !.size = src.size, !.data = src.data,
                 !.allocator = src.allocator]

shallow_copy_call(d, s) ==
    /\ arrays[d].state = "alive"
    /\ arrays[s].state = "alive"
    /\ arrays' = [arrays EXCEPT ![d] = shallow_copy(arrays[d], arrays[s])]
    /\ Done("shallow_copy", d, s, 0, "returned", NoCalls, NoArray, <<>>)
    /\ UNCHANGED storage

unstable_remove_KeepSize(arr, st, index) ==
    IF internal_Assert(index < arr.size) = "passed"
    THEN [outcome |-> "returned", array |-> arr,
          storage |-> [st EXCEPT ![arr.data].elems[index + 1] =
                                     st[arr.data].elems[arr.size]]]
    ELSE [outcome |-> "assertion failure", array |-> arr, storage |-> st]

\* unstable_remove(array, index): Assert(index < array.size);
\* array.data[index] = array.data[array.size - 1]; array.size--;
unstable_remove(arr, st, index) ==
    IF internal_Assert(index < arr.size) = "passed"
    THEN [outcome |-> "returned",
          array |-> [arr EXCEPT !.size = @ - 1],
          storage |-> [st EXCEPT ![arr.data].elems[index + 1] =
                                     st[arr.data].elems[arr.size]]]
    ELSE [outcome |-> "assertion failure", array |-> arr, storage |-> st]

unstable_remove_call(a, index) ==
    /\ arrays[a].state = "alive"
    /\ Usable(arrays[a])
    /\ LET r == unstable_remove(arrays[a], storage, index)
       IN  /\ arrays' = [arrays EXCEPT ![a] = r.array]
           /\ storage' = r.storage
           /\ Done("unstable_remove", a, "none", index, r.outcome,
                   NoCalls, NoArray, <<>>)

\* what a block holds when Alloc returns it: nothing has been written to
\* it yet, and a read yields whatever was there
Uninitialised(n) == { [i \in 1..n |-> g] : g \in {DefaultValue, MaxSize} }

\* deep_copy(dest, src, allocator), dest and src being the array objects d
\* and s (which may be one object):
\*   Assert(allocator != 0);
\*   dest.size = src.size;
\*   dest.data = (TYPE*)allocator->Alloc(dest.size * sizeof(TYPE));
\*   for (i < dest.size) dest.data[i] = src.data[i];
\* fresh is the block Alloc returns and garbage what it holds
deep_copy(arrs, st, d, s, allocator, fresh, garbage) ==
    IF internal_Assert(allocator # NullAllocator) = "passed"
    THEN LET sized   == [arrs EXCEPT ![d].size = arrs[s].size]
             n       == sized[d].size
             alloced == [st EXCEPT ![fresh] =
                            [state |-> "allocated", elems |-> garbage,
                             frees |-> 0]]
             pointed == [sized EXCEPT ![d].data = fresh]
             from    == IF pointed[s].data = Null THEN <<>>
                        ELSE alloced[pointed[s].data].elems
         IN  [outcome |-> "returned",
              arrays |-> pointed,
              storage |-> [alloced EXCEPT ![fresh].elems =
                              [i \in 1..n |-> from[i]]],
              calls |-> [NoCalls EXCEPT !.allocs = <<n * SizeOfType>>]]
    ELSE [outcome |-> "assertion failure", arrays |-> arrs, storage |-> st,
          calls |-> NoCalls]

deep_copy_call(d, s, allocator) ==
    /\ arrays[d].state = "alive"
    /\ arrays[s].state = "alive"
    /\ Usable(arrays[s])
    /\ HasFreeStorage
    /\ \E garbage \in Uninitialised(arrays[s].size) :
           LET r == deep_copy(arrays, storage, d, s, allocator,
                              FreshStorage, garbage)
           IN  /\ arrays' = r.arrays
               /\ storage' = r.storage
               /\ Done("deep_copy", d, s, 0, r.outcome, r.calls,
                       [dest |-> arrays[d], src |-> arrays[s],
                        allocator |-> allocator],
                       View(s))

\* the elements each array shows, for the arrays that can be read
Seen ==
    [b \in ArrayIds |->
        IF arrays[b].state = "alive" /\ Usable(arrays[b]) THEN View(b)
        ELSE <<>>]

\* TYPE& operator [] (unsigned int index), the caller assigning value to
\* the element: Assert(index < size); return data[index];
Subscript(arr, st, index, value) ==
    IF internal_Assert(index < arr.size) = "passed"
    THEN [outcome |-> "returned",
          storage |-> [st EXCEPT ![arr.data].elems[index + 1] = value]]
    ELSE [outcome |-> "assertion failure", storage |-> st]

Subscript_write(a, index, value) ==
    /\ arrays[a].state = "alive"
    /\ Usable(arrays[a])
    /\ LET r == Subscript(arrays[a], storage, index, value)
       IN  /\ storage' = r.storage
           /\ Done("operator[]", a, "none", index, r.outcome, NoCalls,
                   arrays[a], Seen)
    /\ UNCHANGED arrays

\* the indices and values written through operator[]: the first slot and
\* an index out of range for every array; two values, so that every slot
\* can be given a value it does not hold
WriteIndices == {0, MaxSize}

WriteValues == {DefaultValue, MaxSize}

\* the contents of a caller-supplied buffer: k distinct values
Buffers == { [i \in 1..k |-> i] : k \in 0..MaxSize }

\* the indices handed to unstable_remove: the first slot, the second (a
\* middle slot, the last one, or out of range, by the array's length) and
\* one that is out of range for every array
RemoveIndices == {0, 1, MaxSize}

ArrayFrame == UNCHANGED <<searchVars, dbVars, castVars, bufferVars>>

ArrayNext ==
    \/ \E a \in ArrayIds : CArray_empty(a) /\ ArrayFrame
    \/ \E a \in ArrayIds, n \in 0..MaxSize : CArray_alloc(a, n) /\ ArrayFrame
    \/ \E a \in ArrayIds, e \in Buffers : CArray_data(a, e) /\ ArrayFrame
    \/ \E a \in ArrayIds : CArray_dtor(a) /\ ArrayFrame
    \/ \E d \in ArrayIds, s \in ArrayIds :
           shallow_copy_call(d, s) /\ ArrayFrame
    \/ \E a \in ArrayIds, i \in RemoveIndices :
           unstable_remove_call(a, i) /\ ArrayFrame

(***************************************************************************)
(* clutl::DataBuffer, the byte cursor.  The class is declared in the       *)
(* header; the bodies of its operations other than GetPosition are         *)
(* modelled from their description: a fixed-capacity byte region and a     *)
(* cursor, with sequential and absolute reads and writes and three seeks.  *)
(***************************************************************************)
\* largest capacity of a buffer
MaxCapacity == 3

\* a byte no write has set yet
Unwritten == 0

\* the bytes a caller writes: 1, 2, ... , up to one more than fits
Payloads == { [i \in 1..n |-> i] : n \in 0..(MaxCapacity + 1) }

Lengths == 0..(MaxCapacity + 1)

Positions == 0..(MaxCapacity + 1)

Offsets == (0 - (MaxCapacity + 1))..(MaxCapacity + 1)

\* DataBuffer(unsigned int size)
DataBuffer(size) ==
    [m_Data |-> [i \in 1..size |-> Unwritten], m_Size |-> size,
     m_Position |-> 0]

NoIo == [name |-> "none"]

\* an operation succeeded, leaving the buffer as given
Ok(buf, value) == [outcome |-> "ok", buffer |-> buf, value |-> value]

\* an operation failed with the given condition; the buffer is as it was
Failed(buf, condition) ==
    [outcome |-> condition, buffer |-> buf, value |-> <<>>]

\* the bytes of the buffer at [position, position + length)
BytesAt(buf, position, length) ==
    [i \in 1..length |-> buf.m_Data[position + i]]

\* the buffer's bytes with data stored from position on
Stored(buf, data, position) ==
    [i \in 1..buf.m_Size |->
        IF i > position /\ i <= position + Len(data)
        THEN data[i - position] ELSE buf.m_Data[i]]

\* void Reset()
Reset(buf) == Ok([buf EXCEPT !.m_Position = 0], <<>>)

Write_NoBoundsCheck(buf, data) ==
    Ok([buf EXCEPT !.m_Data = Stored(buf, data, buf.m_Position),
                   !.m_Position = @ + Len(data)], <<>>)

\* void Write(const void* data, unsigned int length)
Write(buf, data) ==
    IF buf.m_Position + Len(data) > buf.m_Size
    THEN Failed(buf, "OutOfBounds")
    ELSE Ok([buf EXCEPT !.m_Data = Stored(buf, data, buf.m_Position),
                        !.m_Position = @ + Len(data)], <<>>)

\* void WriteAt(const void* data, unsigned int length, unsigned int position)
WriteAt(buf, data, position) ==
    IF position + Len(data) > buf.m_Size
    THEN Failed(buf, "OutOfBounds")
    ELSE Ok([buf EXCEPT !.m_Data = Stored(buf, data, position)], <<>>)

\* void Read(void* data, unsigned int length)
Read(buf, length) ==
    IF buf.m_Position + length > buf.m_Size
    THEN Failed(buf, "OutOfBounds")
    ELSE Ok([buf EXCEPT !.m_Position = @ + length],
            BytesAt(buf, buf.m_Position, length))

\* const char* ReadAt(unsigned int position) const: m_Data + position,
\* with no bounds check
ReadAt(buf, position) == Ok(buf, <<position>>)

\* void SeekAbs(unsigned int position)
SeekAbs(buf, position) ==
    IF position > buf.m_Size THEN Failed(buf, "OutOfRange")
    ELSE Ok([buf EXCEPT !.m_Position = position], <<>>)

\* void SeekRel(int offset)
SeekRel(buf, offset) ==
    IF buf.m_Position + offset < 0 \/ buf.m_Position + offset > buf.m_Size
    THEN Failed(buf, "OutOfRange")
    ELSE Ok([buf EXCEPT !.m_Position = @ + offset], <<>>)

\* void SeekEnd(int offset): offset counts back from the end
SeekEnd(buf, offset) ==
    IF buf.m_Size - offset < 0 \/ buf.m_Size - offset > buf.m_Size
    THEN Failed(buf, "OutOfRange")
    ELSE Ok([buf EXCEPT !.m_Position = buf.m_Size - offset], <<>>)

GetPosition_Advances(buf) ==
    Ok([buf EXCEPT !.m_Position = @ + 1], <<buf.m_Position>>)

\* unsigned int GetPosition() const { return m_Position; }
GetPosition(buf) == Ok(buf, <<buf.m_Position>>)

\* one call on the buffer: r is what the operation returns and leaves
Called(name, args, r) ==
    /\ buffer' = r.buffer
    /\ io' = [name |-> name, args |-> args, outcome |-> r.outcome,
              value |-> r.value, before |-> buffer]

BufferFrame == UNCHANGED <<searchVars, dbVars, castVars, arrayVars>>

BufferNext ==
    \/ Called("Reset", <<>>, Reset(buffer)) /\ BufferFrame
    \/ \E d \in Payloads :
           Called("Write", <<d>>, Write(buffer, d)) /\ BufferFrame
    \/ \E d \in Payloads, p \in Positions :
           Called("WriteAt", <<d, p>>, WriteAt(buffer, d, p)) /\ BufferFrame
    \/ \E n \in Lengths :
           Called("Read", <<n>>, Read(buffer, n)) /\ BufferFrame
    \/ \E p \in Positions :
           Called("ReadAt", <<p>>, ReadAt(buffer, p)) /\ BufferFrame
    \/ \E p \in Positions :
           Called("SeekAbs", <<p>>, SeekAbs(buffer, p)) /\ BufferFrame
    \/ \E o \in Offsets :
           Called("SeekRel", <<o>>, SeekRel(buffer, o)) /\ BufferFrame
    \/ \E o \in Offsets :
           Called("SeekEnd", <<o>>, SeekEnd(buffer, o)) /\ BufferFrame
    \/ Called("GetPosition", <<>>, GetPosition(buffer)) /\ BufferFrame

\* the copy specification: arrays are constructed, deep-copied, written
\* and destroyed
CopyNext ==
    \/ \E a \in ArrayIds : CArray_empty(a) /\ ArrayFrame
    \/ \E a \in ArrayIds, n \in 0..MaxSize : CArray_alloc(a, n) /\ ArrayFrame
    \/ \E a \in ArrayIds, e \in Buffers : CArray_data(a, e) /\ ArrayFrame
    \/ \E a \in ArrayIds : CArray_dtor(a) /\ ArrayFrame
    \/ \E d \in ArrayIds, s \in ArrayIds,
          allocator \in {NullAllocator, TheAllocator} :
           deep_copy_call(d, s, allocator) /\ ArrayFrame
    \/ \E a \in ArrayIds, i \in WriteIndices, v \in WriteValues :
           Subscript_write(a, i, v) /\ ArrayFrame

(***************************************************************************)
(* The specifications.                                                     *)
(***************************************************************************)
\* the initial states of the specification of one part ("search",
\* "any search", "facade", "cast", "array" or "buffer"): that part starts from its initial states
\* and the others stay idle.  The facades are constructed
\* (Database::Database() : m_DatabaseMem(0)); the array objects are not yet.
InitOf(part) ==
    /\ entries \in IF part = "search" THEN SortedArrays(Hashes, MaxLen)
                   ELSE IF part = "any search"
                   THEN AllArrays(FewHashes, MaxLen)
                   ELSE {<<>>}
    /\ compare_value \in IF part = "search" THEN SearchTargets
                         ELSE IF part = "any search"
                         THEN FewHashes \cup {U32(0, 20)}
                         ELSE {ZeroHash}
    /\ first = 0
    /\ last = IF part \in {"search", "any search"}
              THEN InitialLast(Len(entries)) ELSE NotFound
    /\ search_pc = IF part \in {"search", "any search"} THEN "loop"
                   ELSE "idle"
    /\ returned = <<>>
    /\ m_DatabaseMem = [f \in Facades |-> Database_ctor]
    /\ facade = [f \in Facades |-> "alive"]
    /\ heap = [b \in Blocks |-> UnusedBlock]
    /\ loads = [f \in Facades |-> <<>>]
    /\ call = NoCall
    /\ remembered = NoCall
    /\ node \in IF part = "cast" THEN Nodes
                ELSE {[ns |-> "clcpp", base |-> "Type", kind |-> "KIND_NONE"]}
    /\ cast = NoCast
    /\ arrays = [a \in ArrayIds |-> NoArray]
    /\ storage = [s \in StorageIds |-> UnusedStorage]
    /\ op = NoOp
    /\ buffer \in IF part = "buffer"
                  THEN {DataBuffer(size) : size \in 0..MaxCapacity}
                  ELSE {DataBuffer(0)}
    /\ io = NoIo

SearchSpec == InitOf("search") /\ [][SearchNext]_vars

\* one run of BinarySearch over any array, sorted or not
AnySearchSpec == InitOf("any search") /\ [][SearchNext]_vars

DbSpec == InitOf("facade") /\ [][DbNext]_vars

CastSpec == InitOf("cast") /\ [][CastNext]_vars

ArraySpec == InitOf("array") /\ [][ArrayNext]_vars

CopySpec == InitOf("array") /\ [][CopyNext]_vars

BufferSpec == InitOf("buffer") /\ [][BufferNext]_vars

(***************************************************************************)
(* The claims about the binary search (SearchSpec).                        *)
(***************************************************************************)
Present == \E i \in 1..Len(entries) : entries[i] = compare_value

\* a block whose four searched arrays are all the array of the search
MemOf(arr) ==
    [names |-> arr, type_primitives |-> arr, namespaces |-> arr,
     functions |-> arr]

\* C1: for every array sorted ascending by hash over the full 32-bit range
\* and every hash some entry carries, the search returns an index whose
\* entry has that hash, never not-found
C1_PresentHashIsFound ==
    (search_pc = "done" /\ Present) =>
        /\ returned # <<-1>>
        /\ returned[1] \in 0..(Len(entries) - 1)
        /\ entries[returned[1] + 1] = compare_value

\* C2: for every sorted array, the empty one included, and every hash no
\* entry carries, the search returns -1, and FindPrimitive, GetType,
\* GetNamespace and GetFunction return null
C2_AbsentHashNotFound ==
    ~Present =>
        /\ search_pc = "done" => returned = <<-1>>
        /\ BinarySearch("primitives", entries, compare_value) = -1
        /\ FindPrimitive(entries, compare_value) = NullPrimitive
        /\ GetType(MemOf(entries), compare_value)
               = {Returned(NullPrimitive, TRUE)}
        /\ GetNamespace(MemOf(entries), compare_value)
               = {Returned(NullPrimitive, TRUE)}
        /\ GetFunction(MemOf(entries), compare_value)
               = {Returned(NullPrimitive, TRUE)}

\* a search of an absent hash over three or more entries, some of them
\* 2^31 or more apart, has returned
C2_Witness ==
    /\ search_pc = "done"
    /\ ~Present
    /\ Len(entries) >= 3
    /\ entries[1] = U32(0, 10)
    /\ entries[Len(entries)] = U32(65535, 65535)
    /\ returned = <<-1>>

\* the index the next iteration reads is an index of the array, and an
\* index returned holds the hash looked for
SearchIsSafe ==
    /\ (search_pc = "loop" /\ first <= last) =>
           MidPoint(first, last) \in 0..(Len(entries) - 1)
    /\ (search_pc = "done" /\ returned # <<-1>>) =>
           /\ returned[1] \in 0..(Len(entries) - 1)
           /\ entries[returned[1] + 1] = compare_value

\* an iteration that does not return leaves a smaller interval
IntervalShrinks ==
    (search_pc = "loop" /\ search_pc' = "loop") =>
        last' - first' < last - first

\* C17: for every array of 32-bit hashes, sorted or not, with or without
\* duplicates, and every hash looked for, each iteration of the search
\* strictly shrinks the interval last - first, so the search ends; it
\* reads only indices in 0..N-1; and an index it returns other than -1
\* holds exactly the hash looked for
C17_SearchOfAnyArrayIsSafe == []SearchIsSafe /\ [][IntervalShrinks]_vars

\* the search of an unsorted array with a duplicate has missed an entry
\* that is present
C17_Witness ==
    /\ search_pc = "done"
    /\ entries = <<U32(0, 30), U32(0, 10), U32(0, 10)>>
    /\ compare_value = U32(0, 30)
    /\ returned = <<-1>>

(***************************************************************************)
(* The claims about the Database facade (DbSpec).                          *)
(***************************************************************************)
LastLoad(f) == loads[f][Len(loads[f])]

NeverLoaded(f) == loads[f] = <<>>

\* the facade's whole history is one Load call, which succeeded
OneLoad(f) == Len(loads[f]) = 1 /\ loads[f][1] # Null

RECURSIVE FreesUpTo(_)
FreesUpTo(b) == IF b = 0 THEN 0 ELSE heap[b].frees + FreesUpTo(b - 1)

\* the number of frees performed so far
TotalFrees == FreesUpTo(MaxLoads)

\* C3: GetName(null) and GetName of a text whose hash is 0 return the
\* empty Name (hash 0, null text) without reading the name table or the
\* block, on every facade, loaded or not
C3_GetNameNullOrEmpty ==
    (call.op = "GetName" /\ (call.arg[1] = "null" \/ call.arg[2] = ZeroHash))
        => /\ call.outcome = "returned"
           /\ call.value = [hash |-> U32(0, 0), text |-> 0]
           /\ call.touched = FALSE

\* GetName("") was called on a facade whose only Load failed
C3_Witness ==
    /\ call.op = "GetName"
    /\ call.arg = <<"set", ZeroHash>>
    /\ ~call.loaded
    /\ loads[call.f] = <<Null>>
    /\ call.outcome = "returned"

\* C4: IsLoaded() is false on a fresh facade, and after any Load calls it
\* is true exactly when the most recent Load returned true, which is when
\* the loader returned a block; a failed Load returns false
C4_IsLoadedIffLastLoadSucceeded ==
    \A f \in Facades :
        facade[f] = "alive" =>
            /\ NeverLoaded(f) => ~IsLoaded(m_DatabaseMem[f])
            /\ ~NeverLoaded(f) =>
                   (IsLoaded(m_DatabaseMem[f]) <=> LastLoad(f) # Null)
            /\ (call.op = "Load" /\ call.f = f) =>
                   /\ call.value = (LastLoad(f) # Null)
                   /\ call.value = IsLoaded(m_DatabaseMem[f])

\* a Load has just failed on a facade whose earlier Load succeeded
C4_Witness ==
    /\ call.op = "Load"
    /\ call.value = FALSE
    /\ call.loaded
    /\ Len(loads[call.f]) = 2
    /\ loads[call.f][1] # Null
    /\ ~IsLoaded(m_DatabaseMem[call.f])

\* C5: destroying a facade whose history is one successful Load frees its
\* block exactly once; destroying a facade that never loaded frees
\* nothing; two facades with one successful Load each hold distinct
\* blocks, and destroying both frees each once and leaves none allocated
C5_DestroyFreesOwnBlockOnce ==
    /\ \A f \in Facades :
           (facade[f] = "destroyed" /\ OneLoad(f)) =>
               /\ heap[loads[f][1]].frees = 1
               /\ heap[loads[f][1]].state = "freed"
    /\ \A f \in Facades :
           (call.op = "~Database" /\ call.f = f /\ NeverLoaded(f)) =>
               call.value = Null
    /\ (\A f \in Facades : NeverLoaded(f) \/ OneLoad(f)) =>
           /\ TotalFrees =
                  Cardinality({f \in Facades :
                                  facade[f] = "destroyed" /\ OneLoad(f)})
           /\ \A b \in Blocks : heap[b].frees <= 1
    /\ (\A f \in Facades : OneLoad(f)) =>
           /\ \A f, g \in Facades : f # g => loads[f][1] # loads[g][1]
           /\ (\A f \in Facades : facade[f] = "destroyed") =>
                  \A b \in Blocks : heap[b].state # "allocated"

\* both facades loaded once, successfully, and both were destroyed
C5_Witness ==
    /\ \A f \in Facades : OneLoad(f) /\ facade[f] = "destroyed"
    /\ TotalFrees = 2

\* the step is a query on a loaded facade
QueryOnLoaded == call'.op \in Queries /\ call'.loaded

\* the query repeats the remembered one
RepeatsRemembered ==
    /\ remembered.op = call'.op
    /\ remembered.f = call'.f
    /\ remembered.arg = call'.arg

\* C7: on a loaded database a query changes neither the facade nor the
\* block, and a query that repeats an earlier one (the first since the
\* load) returns the same entry: same index, same field values
C7_QueriesChangeNothing ==
    [][QueryOnLoaded =>
          /\ UNCHANGED <<m_DatabaseMem, facade, heap, loads>>
          /\ RepeatsRemembered =>
                 /\ call'.outcome = remembered.outcome
                 /\ call'.value = remembered.value]_vars

\* a query that found an entry was repeated after the first one
C7_Witness ==
    /\ call.op = "GetType"
    /\ remembered.op = "GetType"
    /\ remembered.f = call.f
    /\ remembered.arg = call.arg
    /\ remembered.repeated
    /\ call.value = [null |-> FALSE, index |-> 0, hash |-> U32(0, 10)]

\* C8: a query (GetName of a text with a non-zero hash, GetType,
\* GetNamespace, GetFunction) on a facade with no loaded block stops with
\* an assertion failure
C8_QueryBeforeLoadAsserts ==
    ( /\ call.op \in Queries
      /\ ~call.loaded
      /\ call.op = "GetName" =>
             (call.arg[1] = "set" /\ call.arg[2] # ZeroHash) )
        => call.outcome = "assertion failure"

\* the blocks the loads of facade f obtained
LoadedBlocks(f) ==
    { loads[f][i] : i \in {j \in 1..Len(loads[f]) : loads[f][j] # Null} }

\* C16: for any sequence of Load calls on a facade, successful or failing,
\* followed by its destruction, every block a load obtained is freed
\* exactly once: the frees equal the successful allocations, and no block
\* is ever allocated without a facade that owns it
C16_EveryLoadedBlockFreedOnce ==
    /\ \A f \in Facades :
           facade[f] = "destroyed" =>
               \A b \in LoadedBlocks(f) :
                   heap[b].state = "freed" /\ heap[b].frees = 1
    /\ (\A f \in Facades : facade[f] = "destroyed") =>
           TotalFrees = Cardinality(UNION {LoadedBlocks(f) : f \in Facades})
    /\ \A b \in Blocks :
           heap[b].state = "allocated" =>
               \E f \in Facades :
                   facade[f] = "alive" /\ m_DatabaseMem[f] = b

(***************************************************************************)
(* The claim about the casts (CastSpec).                                   *)
(***************************************************************************)
\* the kind each cast is for
TargetKind(c) ==
    CASE c = "AsEnum" -> "KIND_ENUM"
      [] c = "AsClass" -> "KIND_CLASS"
      [] c = "AsTemplateType" -> "KIND_TEMPLATE_TYPE"
      [] c = "AsIntAttribute" -> "KIND_INT_ATTRIBUTE"
      [] c = "AsFloatAttribute" -> "KIND_FLOAT_ATTRIBUTE"
      [] c = "AsNameAttribute" -> "KIND_NAME_ATTRIBUTE"
      [] c = "AsTextAttribute" -> "KIND_TEXT_ATTRIBUTE"

\* C6: a kind-specific cast of a Type or Attribute node returns the node
\* when the node's kind tag is the cast's target kind, and otherwise fails
\* the kind assertion and returns no value
C6_CastChecksKind ==
    cast.name # "none" =>
        IF node.kind = TargetKind(cast.name)
        THEN cast.result = [outcome |-> "returned", value |-> node]
        ELSE cast.result = [outcome |-> "assertion failure"]

\* AsEnum() was applied to a Class node
C6_Witness ==
    /\ node = [ns |-> "clcpp", base |-> "Type", kind |-> "KIND_CLASS"]
    /\ cast.name = "AsEnum"
    /\ cast.result.outcome = "assertion failure"

(***************************************************************************)
(* The claims about the array helpers (ArraySpec).                         *)
(***************************************************************************)
RECURSIVE Count(_, _)
Count(seq, v) ==
    IF seq = <<>> THEN 0
    ELSE (IF seq[1] = v THEN 1 ELSE 0) + Count(Tail(seq), v)

\* what C9 says of one unstable_remove step, from the array before the
\* step to the array after it
UnstableRemoveStep ==
    LET was == View(op'.a)
        n   == Len(was)
        i   == op'.index
        now == ViewOf(arrays'[op'.a], storage')
    IN  IF i < n
        THEN /\ op'.outcome = "returned"
             /\ arrays'[op'.a].size = n - 1
             /\ Len(now) = n - 1
             /\ i < n - 1 => now[i + 1] = was[n]
             /\ \A j \in 1..(n - 1) : j # i + 1 => now[j] = was[j]
             /\ \A v \in ElemValues :
                    Count(now, v) =
                        Count(was, v) - (IF v = was[i + 1] THEN 1 ELSE 0)
        ELSE /\ op'.outcome = "assertion failure"
             /\ arrays'[op'.a] = arrays[op'.a]
             /\ now = was

\* C9: unstable_remove(array, index) with index >= length fails the
\* assertion and leaves the array unchanged; otherwise the length shrinks
\* by one, slot index holds the former last element, every other slot
\* below the new length is unchanged, and the elements are, as a multiset,
\* the original ones minus the one removed
C9_UnstableRemove ==
    [][op'.name = "unstable_remove" => UnstableRemoveStep]_vars

\* the first of three elements was removed: the last one took its place
C9_Witness ==
    /\ op.name = "unstable_remove"
    /\ op.outcome = "returned"
    /\ op.index = 0
    /\ View(op.a) = <<3, 2>>

\* C10: shallow_copy(dest, src) makes dest view the storage and length of
\* src and leaves at most one of the two an owner, so that destroying both
\* releases the shared storage at most once
C10_ShallowCopyLeavesOneOwner ==
    /\ (op.name = "shallow_copy" /\ op.a # op.b) =>
           /\ arrays[op.a].data = arrays[op.b].data
           /\ arrays[op.a].size = arrays[op.b].size
           /\ ~ ( /\ arrays[op.a].allocator # NullAllocator
                  /\ arrays[op.b].allocator # NullAllocator )
    /\ \A s \in StorageIds : storage[s].frees <= 1

\* every index below n occurs exactly once in calls
EachOnce(calls, n) ==
    /\ Len(calls) = n
    /\ \A i \in 0..(n - 1) : Count(calls, i) = 1

\* C11: the constructor CArray(length, allocator) makes exactly one Alloc
\* call, for length elements, and constructs each of the length elements
\* once; the destructor of an array that has an allocator destructs each
\* of its elements once and calls Free exactly once, on its allocation;
\* an array constructed empty or over pre-allocated data has no
\* allocator, and the destructor of an array without allocator destructs
\* nothing and frees nothing
C11_OwningArrayLifecycle ==
    /\ op.name = "CArray(size, allocator)" =>
           LET arr == arrays[op.a]
           IN  /\ op.calls.allocs = <<arr.size * SizeOfType>>
               /\ EachOnce(op.calls.constructed, arr.size)
               /\ op.calls.destructed = <<>> /\ op.calls.frees = <<>>
               /\ arr.allocator # NullAllocator
               /\ storage[arr.data].state = "allocated"
               /\ storage[arr.data].frees = 0
               /\ storage[arr.data].elems = [i \in 1..arr.size |-> DefaultValue]
               /\ \A b \in ArrayIds : b # op.a => arrays[b].data # arr.data
    /\ op.name \in {"CArray()", "CArray(data, size)"} =>
           /\ op.calls = NoCalls
           /\ arrays[op.a].allocator = NullAllocator
    /\ op.name = "~CArray" =>
           /\ op.calls.allocs = <<>> /\ op.calls.constructed = <<>>
           /\ IF op.was.allocator # NullAllocator
              THEN /\ EachOnce(op.calls.destructed, op.was.size)
                   /\ op.calls.frees = <<op.was.data>>
                   /\ storage[op.was.data].state = "freed"
              ELSE /\ op.calls.destructed = <<>>
                   /\ op.calls.frees = <<>>
    /\ op.name \in {"shallow_copy", "unstable_remove"} =>
           op.calls = NoCalls

\* an array of three elements that its constructor allocated has been
\* destroyed, and its allocation has been freed once
C11_Witness ==
    /\ op.name = "~CArray"
    /\ op.was.allocator = TheAllocator
    /\ op.was.size = 3
    /\ op.calls.destructed = <<0, 1, 2>>
    /\ storage[op.was.data].state = "freed"
    /\ storage[op.was.data].frees = 1

(***************************************************************************)
(* The claims about deep_copy (CopySpec).                                  *)
(***************************************************************************)
\* what C12 says of the state a deep_copy call with an allocator leaves
DeepCopied ==
    LET dest == arrays[op.a]
        src  == arrays[op.b]
    IN  /\ op.outcome = "returned"
        /\ dest.size = op.was.src.size
        /\ View(op.a) = op.before
        /\ Len(op.calls.allocs) = 1
        /\ dest.data \notin {op.was.src.data, op.was.dest.data}
        /\ dest.data # src.data
        /\ storage[dest.data].state = "allocated"
        /\ src = op.was.src
        /\ View(op.b) = op.before

\* a write through operator[] left the arrays in other storage as they were
WriteIsLocal ==
    \A b \in ArrayIds :
        ( /\ b # op.a
          /\ arrays[b].state = "alive"
          /\ Usable(arrays[b])
          /\ arrays[b].data # arrays[op.a].data ) => View(b) = op.before[b]

C15_DeepCopyOwns ==
    /\ (op.name = "deep_copy" /\ op.outcome = "returned") =>
           arrays[op.a].allocator = op.was.allocator
    /\ ( /\ op.name = "~CArray"
         /\ op.was.data # Null
         /\ storage[op.was.data].state # "external" ) =>
           /\ storage[op.was.data].state = "freed"
           /\ storage[op.was.data].frees = 1
           /\ op.calls.frees = <<op.was.data>>

(***************************************************************************)
(* The claims about the byte cursor (BufferSpec).                          *)
(***************************************************************************)
\* C13: Write(data, length) at cursor position p in a buffer of capacity C
\* fails with OutOfBounds when p + length > C, and otherwise stores the
\* bytes at [p, p + length) and advances the cursor to p + length; after
\* any sequence of Reset, Write, WriteAt, Read, ReadAt and Seek calls,
\* successful or failing, the cursor position is within 0..C
C13_WriteAndCursorRange ==
    /\ io.name = "Write" =>
           LET p      == io.before.m_Position
               data   == io.args[1]
               length == Len(data)
           IN  IF p + length > io.before.m_Size
               THEN io.outcome = "OutOfBounds"
               ELSE /\ io.outcome = "ok"
                    /\ \A i \in 1..length : buffer.m_Data[p + i] = data[i]
                    /\ buffer.m_Position = p + length
    /\ buffer.m_Position \in 0..buffer.m_Size

\* two bytes were written at position 1 of a buffer of capacity 3, and
\* the cursor reached the end
C13_Witness ==
    /\ io.name = "Write"
    /\ io.outcome = "ok"
    /\ io.args = << <<1, 2>> >>
    /\ io.before.m_Position = 1
    /\ buffer.m_Size = 3
    /\ buffer.m_Position = 3
    /\ buffer.m_Data[2] = 1 /\ buffer.m_Data[3] = 2

\* C14: WriteAt(data, length, position), ReadAt(position) and
\* GetPosition() leave the cursor position as it was, for every buffer
\* state and argument; ReadAt and GetPosition also leave the bytes of the
\* buffer as they were
C14_CursorUntouched ==
    /\ io.name \in {"WriteAt", "ReadAt", "GetPosition"} =>
           buffer.m_Position = io.before.m_Position
    /\ io.name \in {"ReadAt", "GetPosition"} =>
           /\ buffer.m_Data = io.before.m_Data
           /\ buffer.m_Size = io.before.m_Size
    /\ io.name = "GetPosition" => io.value = <<io.before.m_Position>>

\* WriteAt stored two bytes at position 1 while the cursor stood at 2
C14_Witness ==
    /\ io.name = "WriteAt"
    /\ io.outcome = "ok"
    /\ io.args = << <<1, 2>>, 1 >>
    /\ io.before.m_Position = 2
    /\ buffer.m_Position = 2
    /\ buffer.m_Data[2] = 1 /\ buffer.m_Data[3] = 2

====
